---- MODULE Spec2Model ----
(***************************************************************************)
(* GateKeeper check-in engine: registration (apps/api/src/routes/          *)
(* tickets.ts), scanner validation (apps/api/src/routes/scanner.ts) and    *)
(* the JWT service (JWTService).  Every await on the database is a step    *)
(* boundary: a request handler runs from one await to the next atomically, *)
(* and handlers of different requests interleave at the awaits.            *)
(***************************************************************************)
EXTENDS Integers, Sequences, FiniteSets, TLC

\* ---------------------------------------------------------------- bounds
NumUsers == 2
MaxValidate == 2
MaxRegister == 2
MaxTime == 2

Users == 1..NumUsers
ValidateCalls == 1..MaxValidate
RegisterCalls == 1..MaxRegister

\* ----------------------------------------------------------------- state
\* tickets:   the tickets table, a sequence of ticket rows
\* nextNonce: the next value of randomBytes(32), which never repeats
\* now:       the latest reading of the wall clock, in seconds
\* vcalls:    the POST /api/scanner/validate requests
\* rcalls:    the POST /api/tickets/register requests
VARIABLES tickets, nextNonce, now, vcalls, rcalls

vars == <<tickets, nextNonce, now, vcalls, rcalls>>

\* ------------------------------------------------------------ data model
\* null / undefined / missing value of an optional field
NULL == 0

\* the events table: one free public event and one paid private event
EventIds == {1, 2}
events ==
  [e \in EventIds |->
     IF e = 1
     THEN [price |-> 0, capacity |-> 1, isPrivate |-> FALSE, inviteToken |-> "none"]
     ELSE [price |-> 1, capacity |-> 1, isPrivate |-> TRUE, inviteToken |-> "invite"]]

\* an eventId that is not in the events table
UnknownEvent == 3

TicketStatus == {"REGISTERED", "WAITLISTED", "CHECKED_IN", "CANCELLED"}

\* TicketPayload {sub, evt, iat, nonce}; null is the all-NULL payload
NoPayload == [sub |-> NULL, evt |-> NULL, iat |-> NULL, nonce |-> NULL]

\* RS256 signature of a payload under the private key: only jwt.sign
\* produces it, and it verifies for exactly the payload that was signed
Sign(payload) == <<payload.sub, payload.evt, payload.iat, payload.nonce>>

\* a signature that verifies for no payload
BadSig == <<>>

\* a missing token (undefined or the empty string)
NoToken == [sub |-> NULL, evt |-> NULL, iat |-> NULL, nonce |-> NULL, sig |-> BadSig]

Claims(token) ==
  [sub |-> token.sub, evt |-> token.evt, iat |-> token.iat, nonce |-> token.nonce]

\* JWTService.generateTicketToken: the nonce is the generateNonce() value,
\* dateNow is Date.now() in milliseconds; no exp claim is set
generateTicketToken(userId, eventId, nonce, dateNow) ==
  LET payload == [sub |-> userId, evt |-> eventId,
                  iat |-> dateNow \div 1000, nonce |-> nonce]
  IN  [token |-> [sub |-> payload.sub, evt |-> payload.evt, iat |-> payload.iat,
                  nonce |-> payload.nonce, sig |-> Sign(payload)],
       nonce |-> nonce]

\* the token is decoded and its signature is not checked
verifyTicketToken_decodeOnly(token) ==
  Claims(token)

\* the token is refused once the clock has passed its issuance second
verifyTicketToken_maxAge(token) ==
  IF token.sig = Sign(Claims(token)) /\ now <= token.iat
  THEN Claims(token) ELSE NoPayload

\* JWTService.verifyTicketToken: the payload if the signature verifies,
\* null otherwise; nothing but the signature is checked (no exp, no iat)
verifyTicketToken(token) ==
  IF token.sig = Sign(Claims(token)) THEN Claims(token) ELSE NoPayload

\* a ticket row; id is its position in the tickets table
NoTicket ==
  [id |-> NULL, userId |-> NULL, eventId |-> NULL, status |-> "NONE",
   nonce |-> NULL, checkInTime |-> NULL, jwtToken |-> NoToken]

\* a ticket that an earlier attendee registered for the free event before
\* the run and that an administrator cancelled
FormerAttendee == NumUsers + 1

CancelledTicket ==
  [id |-> 1, userId |-> FormerAttendee, eventId |-> 1, status |-> "CANCELLED",
   nonce |-> 1, checkInTime |-> NULL,
   jwtToken |-> generateTicketToken(FormerAttendee, 1, 1, 0).token]

\* ------------------------------------------------------ derived state
TicketIds == 1..Len(tickets)

\* the values a reading of the clock can give: time does not run backwards
ClockReadings == now..MaxTime

\* Date.now() in milliseconds, for a clock reading in seconds
DateNow(time) == time * 1000

\* Date.toLocaleTimeString / string interpolation of an optional date
TimeString(t) == IF t = NULL THEN "undefined" ELSE ToString(t)

\* user.fullName of the included user relation
FullName(userId) == ToString(userId)

\* ----------------------------------------------------- ledger operations
\* the lookup matches the nonce embedded in the token stored with the row
findUniqueByNonce_embedded(nonce) ==
  IF nonce # NULL /\ \E t \in TicketIds : tickets[t].jwtToken.nonce = nonce
  THEN tickets[CHOOSE t \in TicketIds : tickets[t].jwtToken.nonce = nonce]
  ELSE NoTicket

\* prisma.ticket.findUnique({ where: { nonce } }): nonce is a unique column
findUniqueByNonce(nonce) ==
  IF nonce # NULL /\ \E t \in TicketIds : tickets[t].nonce = nonce
  THEN tickets[CHOOSE t \in TicketIds : tickets[t].nonce = nonce]
  ELSE NoTicket

\* prisma.ticket.findUnique({ where: { userId_eventId } })
findUniqueByUserEvent(userId, eventId) ==
  IF \E t \in TicketIds : tickets[t].userId = userId /\ tickets[t].eventId = eventId
  THEN tickets[CHOOSE t \in TicketIds :
                 tickets[t].userId = userId /\ tickets[t].eventId = eventId]
  ELSE NoTicket

\* prisma.ticket.count({ where: { eventId, status: { in: [...] } } })
countTickets(eventId, statuses) ==
  Cardinality({t \in TicketIds :
                 tickets[t].eventId = eventId /\ tickets[t].status \in statuses})

\* the unique constraints of the tickets table reject a row
NonceTaken(nonce, exceptId) ==
  nonce # NULL /\ \E t \in TicketIds : t # exceptId /\ tickets[t].nonce = nonce

UserEventTaken_never(userId, eventId) ==
  FALSE

UserEventTaken(userId, eventId) ==
  \E t \in TicketIds : tickets[t].userId = userId /\ tickets[t].eventId = eventId

\* ------------------------------------------------- validation responses
Response(http, valid, color, message, reason, ticket) ==
  [http |-> http, valid |-> valid, color |-> color, message |-> message,
   reason |-> reason, ticket |-> ticket]

NoResponse == Response(0, FALSE, "none", <<>>, <<>>, NoTicket)

BadRequest ==
  Response(400, FALSE, "red", <<"Missing token or eventId">>,
           <<"Invalid request">>, NoTicket)

SignatureFailed ==
  Response(200, FALSE, "red", <<"Invalid or counterfeit ticket">>,
           <<"JWT signature verification failed">>, NoTicket)

EventMismatch ==
  Response(200, FALSE, "red", <<"Ticket is for a different event">>,
           <<"Event ID mismatch">>, NoTicket)

NonceNotFound ==
  Response(200, FALSE, "red", <<"Ticket not found or counterfeit">>,
           <<"Nonce not found in database">>, NoTicket)

Duplicate(ticket) ==
  Response(200, FALSE, "yellow",
           <<"Already checked in at ", TimeString(ticket.checkInTime)>>,
           <<"Duplicate check-in attempt">>, ticket)

\* step 5 answers yellow, like a duplicate
InvalidStatus_yellow(ticket) ==
  Response(200, FALSE, "yellow", <<"Ticket status: ", ticket.status>>,
           <<"Invalid status: ", ticket.status>>, NoTicket)

InvalidStatus(ticket) ==
  Response(200, FALSE, "red", <<"Ticket status: ", ticket.status>>,
           <<"Invalid status: ", ticket.status>>, NoTicket)

Accepted(updatedTicket) ==
  Response(200, TRUE, "green", <<"Welcome, ", FullName(updatedTicket.userId), "!">>,
           <<"Successfully checked in">>, updatedTicket)

\* the catch block answers like the unknown-nonce reject
InternalError_asNotFound ==
  NonceNotFound

InternalError ==
  Response(500, FALSE, "red", <<"System error during validation">>,
           <<"Internal server error">>, NoTicket)

\* --------------------------------------------------- POST /validate
IdleV ==
  [pc |-> "idle", token |-> NoToken, eventId |-> NULL, payload |-> NoPayload,
   ticketId |-> NULL, newNonce |-> NULL, result |-> NoResponse,
   before |-> {}, reads |-> 0, writes |-> 0]

\* step 2 runs before step 1: the evt claim is compared before the
\* signature is verified
ValidateHead_eventFirst(token, eventId) ==
  IF token = NoToken \/ eventId = NULL THEN BadRequest
  ELSE IF Claims(token).evt # eventId THEN EventMismatch
  ELSE IF verifyTicketToken(token) = NoPayload THEN SignatureFailed
  ELSE NoResponse

\* the input check is skipped: a missing token goes to step 1
ValidateHead_noInputCheck(token, eventId) ==
  IF verifyTicketToken(token) = NoPayload THEN SignatureFailed
  ELSE IF verifyTicketToken(token).evt # eventId THEN EventMismatch
  ELSE NoResponse

\* step 2 is skipped: the evt claim is not compared with the eventId
ValidateHead_noEventCheck(token, eventId) ==
  IF token = NoToken \/ eventId = NULL THEN BadRequest
  ELSE IF verifyTicketToken(token) = NoPayload THEN SignatureFailed
  ELSE NoResponse

\* the synchronous head of the handler: input check, step 1 and step 2
ValidateHead(token, eventId) ==
  IF token = NoToken \/ eventId = NULL THEN BadRequest
  ELSE IF verifyTicketToken(token) = NoPayload THEN SignatureFailed
  ELSE IF verifyTicketToken(token).evt # eventId THEN EventMismatch
  ELSE NoResponse

\* the tokens a presenter can hold: the tokens stored with tickets (shown
\* as QR codes), and copies of them with the signature corrupted or a
\* claim altered without re-signing
Alterations(tok) ==
  {tok, [tok EXCEPT !.sig = BadSig]}
    \cup {[tok EXCEPT !.sub = u] : u \in {(tok.sub % NumUsers) + 1}}
    \cup {[tok EXCEPT !.evt = e] : e \in EventIds \ {tok.evt}}

\* the tokens issued to attendees: the tokens stored with the tickets
Genuine ==
  {tickets[t].jwtToken : t \in {x \in TicketIds : tickets[x].jwtToken # NoToken}}

Presentable == UNION {Alterations(tok) : tok \in Genuine}

\* the request arrives; the handler runs up to the findUnique await
ValidateStart(c, token, eventId) ==
  /\ vcalls[c].pc = "idle"
  /\ c > 1 => vcalls[c - 1].pc # "idle"
  /\ LET head == ValidateHead(token, eventId)
         base == [IdleV EXCEPT !.token = token, !.eventId = eventId,
                               !.before = {d \in ValidateCalls : vcalls[d].pc = "done"}]
     IN  vcalls' = [vcalls EXCEPT ![c] =
           IF head # NoResponse
           THEN [base EXCEPT !.pc = "done", !.result = head]
           ELSE [base EXCEPT !.pc = "find", !.payload = verifyTicketToken(token)]]
  /\ UNCHANGED <<tickets, nextNonce, now, rcalls>>

\* the update writes the nonce of the first row instead of the rotated one
CheckInData_firstRowNonce(ticket, time, nonce) ==
  [ticket EXCEPT !.status = "CHECKED_IN", !.checkInTime = time,
                 !.nonce = tickets[1].nonce]

\* the update sets status and nonce and leaves checkInTime as it was
CheckInData_noTime(ticket, time, nonce) ==
  [ticket EXCEPT !.status = "CHECKED_IN", !.nonce = nonce]

\* the update stamps the time and leaves status and nonce as they were
CheckInData_timeOnly(ticket, time, nonce) ==
  [ticket EXCEPT !.checkInTime = time]

\* the update does not rotate the nonce
CheckInData_keepNonce(ticket, time, nonce) ==
  [ticket EXCEPT !.status = "CHECKED_IN", !.checkInTime = time]

\* the data of the step-6 update applied to a row
CheckInData(ticket, time, nonce) ==
  [ticket EXCEPT !.status = "CHECKED_IN", !.checkInTime = time, !.nonce = nonce]

\* the lookup is answered only while no other request is between its
\* lookup and its update
ValidateFind_serialized(c) ==
  /\ vcalls[c].pc = "find"
  /\ \A d \in ValidateCalls \ {c} : vcalls[d].pc # "update"
  /\ LET ticket == findUniqueByNonce(vcalls[c].payload.nonce)
         read == [vcalls[c] EXCEPT !.reads = @ + 1]
     IN  IF ticket = NoTicket
         THEN /\ vcalls' = [vcalls EXCEPT ![c] =
                   [read EXCEPT !.pc = "done", !.result = NonceNotFound]]
              /\ UNCHANGED nextNonce
         ELSE IF ticket.status = "CHECKED_IN"
         THEN /\ vcalls' = [vcalls EXCEPT ![c] =
                   [read EXCEPT !.pc = "done", !.result = Duplicate(ticket)]]
              /\ UNCHANGED nextNonce
         ELSE IF ticket.status # "REGISTERED"
         THEN /\ vcalls' = [vcalls EXCEPT ![c] =
                   [read EXCEPT !.pc = "done", !.result = InvalidStatus(ticket)]]
              /\ UNCHANGED nextNonce
         ELSE /\ vcalls' = [vcalls EXCEPT ![c] =
                   [read EXCEPT !.pc = "update", !.ticketId = ticket.id,
                                !.newNonce = nextNonce]]
              /\ nextNonce' = nextNonce + 1
  /\ UNCHANGED <<tickets, now, rcalls>>

\* step 5 is skipped: every ticket that is not CHECKED_IN goes on to step 6
ValidateFind_noStatusCheck(c) ==
  /\ vcalls[c].pc = "find"
  /\ LET ticket == findUniqueByNonce(vcalls[c].payload.nonce)
         read == [vcalls[c] EXCEPT !.reads = @ + 1]
     IN  IF ticket = NoTicket
         THEN /\ vcalls' = [vcalls EXCEPT ![c] =
                   [read EXCEPT !.pc = "done", !.result = NonceNotFound]]
              /\ UNCHANGED nextNonce
         ELSE IF ticket.status = "CHECKED_IN"
         THEN /\ vcalls' = [vcalls EXCEPT ![c] =
                   [read EXCEPT !.pc = "done", !.result = Duplicate(ticket)]]
              /\ UNCHANGED nextNonce
         ELSE /\ vcalls' = [vcalls EXCEPT ![c] =
                   [read EXCEPT !.pc = "update", !.ticketId = ticket.id,
                                !.newNonce = nextNonce]]
              /\ nextNonce' = nextNonce + 1
  /\ UNCHANGED <<tickets, now, rcalls>>

\* step 3 answers; steps 4 and 5 and the rotateNonce() of step 6 run, up to
\* the update await
ValidateFind(c) ==
  /\ vcalls[c].pc = "find"
  /\ LET ticket == findUniqueByNonce(vcalls[c].payload.nonce)
         read == [vcalls[c] EXCEPT !.reads = @ + 1]
     IN  IF ticket = NoTicket
         THEN /\ vcalls' = [vcalls EXCEPT ![c] =
                   [read EXCEPT !.pc = "done", !.result = NonceNotFound]]
              /\ UNCHANGED nextNonce
         ELSE IF ticket.status = "CHECKED_IN"
         THEN /\ vcalls' = [vcalls EXCEPT ![c] =
                   [read EXCEPT !.pc = "done", !.result = Duplicate(ticket)]]
              /\ UNCHANGED nextNonce
         ELSE IF ticket.status # "REGISTERED"
         THEN /\ vcalls' = [vcalls EXCEPT ![c] =
                   [read EXCEPT !.pc = "done", !.result = InvalidStatus(ticket)]]
              /\ UNCHANGED nextNonce
         ELSE /\ vcalls' = [vcalls EXCEPT ![c] =
                   [read EXCEPT !.pc = "update", !.ticketId = ticket.id,
                                !.newNonce = nextNonce]]
              /\ nextNonce' = nextNonce + 1
  /\ UNCHANGED <<tickets, now, rcalls>>

\* the update is an updateMany over the tickets of the row's event
ValidateUpdate_updateMany(c, time) ==
  /\ vcalls[c].pc = "update"
  /\ now' = time
  /\ LET id == vcalls[c].ticketId
         updatedTicket == CheckInData(tickets[id], time, vcalls[c].newNonce)
     IN  /\ tickets' = [t \in TicketIds |->
                          IF tickets[t].eventId = tickets[id].eventId
                          THEN CheckInData(tickets[t], time, vcalls[c].newNonce)
                          ELSE tickets[t]]
         /\ vcalls' = [vcalls EXCEPT ![c] =
              [@ EXCEPT !.pc = "done", !.writes = @ + 1,
                        !.result = Accepted(updatedTicket)]]
  /\ UNCHANGED <<nextNonce, rcalls>>

\* prisma.ticket.update({ where: { id }, data }) executes with new Date()
\* reading time, and the handler responds; a violated unique constraint
\* throws into the catch block
ValidateUpdate(c, time) ==
  /\ vcalls[c].pc = "update"
  /\ now' = time
  /\ LET id == vcalls[c].ticketId
         updatedTicket == CheckInData(tickets[id], time, vcalls[c].newNonce)
     IN  IF NonceTaken(vcalls[c].newNonce, id)
         THEN /\ vcalls' = [vcalls EXCEPT ![c] =
                   [@ EXCEPT !.pc = "done", !.result = InternalError]]
              /\ UNCHANGED tickets
         ELSE /\ tickets' = [tickets EXCEPT ![id] = updatedTicket]
              /\ vcalls' = [vcalls EXCEPT ![c] =
                   [@ EXCEPT !.pc = "done", !.writes = @ + 1,
                             !.result = Accepted(updatedTicket)]]
  /\ UNCHANGED <<nextNonce, rcalls>>

\* a ledger operation of the request fails (database unavailable, timeout):
\* the await throws and the catch block answers
ValidateLedgerFailure(c) ==
  /\ vcalls[c].pc \in {"find", "update"}
  /\ vcalls' = [vcalls EXCEPT ![c] =
        [@ EXCEPT !.pc = "done", !.result = InternalError]]
  /\ UNCHANGED <<tickets, nextNonce, now, rcalls>>

\* --------------------------------------------------- POST /register
RegisterResponse(http, error, ticket) ==
  [http |-> http, error |-> error, ticket |-> ticket]

NoRegisterResponse == RegisterResponse(0, "none", NoTicket)

IdleR ==
  [pc |-> "idle", userId |-> NULL, eventId |-> NULL, status |-> "NONE",
   token |-> NoToken, nonce |-> NULL, result |-> NoRegisterResponse]

\* the authenticated request runs up to the capacity-count await: the event
\* is looked up and the invite token of a private event is checked (the
\* events table never changes, so these read nothing another request can
\* write), then the FR-10 duplicate-registration lookup executes
RegisterStart(r, userId, eventId, inviteToken) ==
  /\ rcalls[r].pc = "idle"
  /\ r > 1 => rcalls[r - 1].pc # "idle"
  /\ LET base == [IdleR EXCEPT !.userId = userId, !.eventId = eventId]
         existingTicket == findUniqueByUserEvent(userId, eventId)
     IN  rcalls' = [rcalls EXCEPT ![r] =
           IF eventId \notin EventIds
           THEN [base EXCEPT !.pc = "done",
                   !.result = RegisterResponse(404, "Event not found", NoTicket)]
           ELSE IF events[eventId].isPrivate /\ events[eventId].inviteToken # inviteToken
           THEN [base EXCEPT !.pc = "done",
                   !.result = RegisterResponse(403,
                                "Invalid invite token for private event", NoTicket)]
           ELSE IF existingTicket # NoTicket
           THEN [base EXCEPT !.pc = "done",
                   !.result = RegisterResponse(409, "Already registered", existingTicket)]
           ELSE [base EXCEPT !.pc = "count"]]
  /\ UNCHANGED <<tickets, nextNonce, now, vcalls>>

\* FR-05: the status a new ticket gets for a counted number of tickets
StatusFor(ticketCount, capacity) ==
  IF ticketCount >= capacity THEN "WAITLISTED" ELSE "REGISTERED"

\* generateNonce() returns the value it returned to the request before
RegisterCount_repeatNonce(r, time) ==
  /\ rcalls[r].pc = "count"
  /\ LET eventId == rcalls[r].eventId
         ticketCount == countTickets(eventId, {"REGISTERED", "CHECKED_IN"})
         status == StatusFor(ticketCount, events[eventId].capacity)
         issued == generateTicketToken(rcalls[r].userId, eventId, nextNonce, DateNow(time))
     IN  IF events[eventId].price > 0
         THEN /\ rcalls' = [rcalls EXCEPT ![r] =
                   [@ EXCEPT !.pc = "create", !.status = status]]
              /\ UNCHANGED <<nextNonce, now>>
         ELSE /\ rcalls' = [rcalls EXCEPT ![r] =
                   [@ EXCEPT !.pc = "create", !.status = status,
                             !.token = issued.token, !.nonce = issued.nonce]]
              /\ UNCHANGED nextNonce
              /\ now' = time
  /\ UNCHANGED <<tickets, vcalls>>

\* the capacity count answers; the status is fixed and, for a free event,
\* the ticket token is generated with Date.now() reading time, up to the
\* create await
RegisterCount(r, time) ==
  /\ rcalls[r].pc = "count"
  /\ LET eventId == rcalls[r].eventId
         ticketCount == countTickets(eventId, {"REGISTERED", "CHECKED_IN"})
         status == StatusFor(ticketCount, events[eventId].capacity)
         issued == generateTicketToken(rcalls[r].userId, eventId, nextNonce, DateNow(time))
     IN  IF events[eventId].price > 0
         THEN /\ rcalls' = [rcalls EXCEPT ![r] =
                   [@ EXCEPT !.pc = "create", !.status = status]]
              /\ UNCHANGED <<nextNonce, now>>
         ELSE /\ rcalls' = [rcalls EXCEPT ![r] =
                   [@ EXCEPT !.pc = "create", !.status = status,
                             !.token = issued.token, !.nonce = issued.nonce]]
              /\ nextNonce' = nextNonce + 1
              /\ now' = time
  /\ UNCHANGED <<tickets, vcalls>>

\* the row a register request creates: a paid event's ticket is REGISTERED
\* without token and nonce, a free event's ticket carries the computed
\* status, the token and the nonce
NewTicket(id, call) ==
  IF events[call.eventId].price > 0
  THEN [NoTicket EXCEPT !.id = id, !.userId = call.userId,
                        !.eventId = call.eventId, !.status = "REGISTERED"]
  ELSE [NoTicket EXCEPT !.id = id, !.userId = call.userId,
                        !.eventId = call.eventId, !.status = call.status,
                        !.jwtToken = call.token, !.nonce = call.nonce]

\* prisma.ticket.create executes and the handler responds; a violated
\* unique constraint throws into the catch block
RegisterCreate(r) ==
  /\ rcalls[r].pc = "create"
  /\ LET ticket == NewTicket(Len(tickets) + 1, rcalls[r])
     IN  IF UserEventTaken(ticket.userId, ticket.eventId) \/ NonceTaken(ticket.nonce, NULL)
         THEN /\ rcalls' = [rcalls EXCEPT ![r] =
                   [@ EXCEPT !.pc = "done",
                      !.result = RegisterResponse(500, "Failed to register for event",
                                                  NoTicket)]]
              /\ UNCHANGED tickets
         ELSE /\ tickets' = Append(tickets, ticket)
              /\ rcalls' = [rcalls EXCEPT ![r] =
                   [@ EXCEPT !.pc = "done",
                      !.result = RegisterResponse(
                                   IF events[ticket.eventId].price > 0 THEN 200 ELSE 201,
                                   "none", ticket)]]
  /\ UNCHANGED <<nextNonce, now, vcalls>>

\* -------------------------------------------------------- specification
\* the ledger holds one ticket, cancelled before the run
Init ==
  /\ tickets = <<CancelledTicket>>
  /\ nextNonce = 2
  /\ now = 1
  /\ vcalls = [c \in ValidateCalls |-> IdleV]
  /\ rcalls = [r \in RegisterCalls |-> IdleR]

\* attendees present their tokens at either event and register for
\* existing events with the right invite token
Next ==
  \/ \E c \in ValidateCalls, token \in Genuine, eventId \in EventIds :
        ValidateStart(c, token, eventId)
  \/ \E c \in ValidateCalls : ValidateFind(c)
  \/ \E c \in ValidateCalls, time \in ClockReadings : ValidateUpdate(c, time)
  \/ \E r \in RegisterCalls, userId \in Users, eventId \in EventIds :
        RegisterStart(r, userId, eventId, events[eventId].inviteToken)
  \/ \E r \in RegisterCalls, time \in ClockReadings : RegisterCount(r, time)
  \/ \E r \in RegisterCalls : RegisterCreate(r)

Spec == Init /\ [][Next]_vars

\* the same program when the last request to arrive may also be malformed
\* or carry an altered token, an unknown event or a wrong invite token
NextAdversary ==
  \/ Next
  \/ \E token \in Presentable \cup {NoToken}, eventId \in EventIds \cup {NULL} :
        ValidateStart(MaxValidate, token, eventId)
  \/ \E userId \in Users, eventId \in EventIds \cup {UnknownEvent},
         inviteToken \in {"invite", "wrong"} :
        RegisterStart(MaxRegister, userId, eventId, inviteToken)

SpecAdversary == Init /\ [][NextAdversary]_vars

\* the same program over a ledger whose operations may fail
NextFault ==
  \/ Next
  \/ \E c \in ValidateCalls : ValidateLedgerFailure(c)

SpecFault == Init /\ [][NextFault]_vars

\* the ledger answers the pending operation of a validate request
ValidateStep(c) ==
  \/ ValidateFind(c)
  \/ \E time \in ClockReadings : ValidateUpdate(c, time)

\* the failing ledger, when every pending ledger operation of a validate
\* request is eventually answered, with a result or with a failure
SpecLive ==
  /\ SpecFault
  /\ \A c \in ValidateCalls : WF_vars(ValidateStep(c) \/ ValidateLedgerFailure(c))

\* the same program with altered or missing inputs on the last request and
\* a ledger whose operations may fail
NextAdversaryFault ==
  \/ NextAdversary
  \/ \E c \in ValidateCalls : ValidateLedgerFailure(c)

SpecAdversaryFault == Init /\ [][NextAdversaryFault]_vars

TypeOK ==
  /\ \A t \in TicketIds : tickets[t].id = t /\ tickets[t].status \in TicketStatus
  /\ now \in 1..MaxTime

\* ------------------------------------------------------------ outcomes
IsAccept(res) == res.valid /\ res.color = "green"
IsDuplicate(res) == ~res.valid /\ res.color = "yellow"
IsHardReject(res) == ~res.valid /\ res.color = "red"

Started(c) == vcalls[c].pc # "idle"
Done(c) == vcalls[c].pc = "done"

\* the signature of the token is the one jwt.sign gave its claims
Authentic(token) == token # NoToken /\ token.sig = Sign(Claims(token))

\* neither request had been answered when the other arrived
Concurrent(c, d) ==
  /\ c # d /\ Started(c) /\ Started(d)
  /\ c \notin vcalls[d].before /\ d \notin vcalls[c].before

\* the ticket the token was issued for was created REGISTERED
RegisteredCredential(token) ==
  \E t \in TicketIds :
    tickets[t].jwtToken = token /\ tickets[t].status \in {"REGISTERED", "CHECKED_IN"}

\* the requests that present the token at the event it was issued for
Presentations(token) ==
  {c \in ValidateCalls :
     Started(c) /\ vcalls[c].token = token /\ vcalls[c].eventId = token.evt}

\* ---------------------------------------------------------------- claims

\* C1: when N >= 1 concurrent validate calls carry the identical credential
\* of a REGISTERED ticket and all have been answered, exactly one of them was
\* answered Accept and every other one duplicate.
C1_OneAcceptOthersDuplicate ==
  \A token \in Genuine :
    LET group == Presentations(token)
    IN  (/\ group # {}
         /\ RegisteredCredential(token)
         /\ \A c \in group : Done(c)
         /\ \A c, d \in group : c # d => Concurrent(c, d))
        => /\ Cardinality({c \in group : IsAccept(vcalls[c].result)}) = 1
           /\ \A c \in group :
                IsAccept(vcalls[c].result) \/ IsDuplicate(vcalls[c].result)

\* C2: the check-in write is applied to a ticket only if the ticket is still
\* REGISTERED at the moment of the write, so a ticket is checked in at most
\* once: no step changes a ticket row whose status is not REGISTERED.
C2_WriteOnlyIfStillRegistered ==
  [][\A t \in TicketIds :
       tickets'[t] # tickets[t] => tickets[t].status = "REGISTERED"]_vars

\* C3: a validate call that arrives after an Accept was returned for the
\* same credential and the same eventId is answered duplicate.
C3_ReplayIsDuplicate ==
  \A c, d \in ValidateCalls :
    (/\ Done(c) /\ d \in vcalls[c].before
     /\ vcalls[c].token = vcalls[d].token /\ vcalls[c].eventId = vcalls[d].eventId
     /\ IsAccept(vcalls[d].result))
    => IsDuplicate(vcalls[c].result)

\* C4: a validate call that arrives after an Accept was returned for the
\* same credential is never answered Accept, whatever its eventId.
C4_NoAcceptAfterAccept ==
  \A c, d \in ValidateCalls :
    (/\ Done(c) /\ d \in vcalls[c].before
     /\ vcalls[c].token = vcalls[d].token
     /\ IsAccept(vcalls[d].result))
    => ~IsAccept(vcalls[c].result)

\* C4 witness: the credential was accepted, presented again at its own event
\* afterwards, and that later request has been answered
C4_Witness ==
  \E c, d \in ValidateCalls :
    /\ Done(c) /\ d \in vcalls[c].before
    /\ vcalls[c].token = vcalls[d].token
    /\ vcalls[c].eventId = vcalls[c].token.evt
    /\ IsAccept(vcalls[d].result)

\* no ticket row holds the nonce as its current nonce
Stale(nonce) == \A t \in TicketIds : tickets[t].nonce # nonce

C6_HappyPath ==
  \A c \in ValidateCalls : \A t \in TicketIds :
    (/\ Done(c) /\ vcalls[c].token = tickets[t].jwtToken
     /\ tickets[t].jwtToken # NoToken
     /\ vcalls[c].eventId = tickets[t].eventId
     /\ tickets[t].status \in {"REGISTERED", "CHECKED_IN"}
     /\ \A d \in ValidateCalls \ {c} :
          (Started(d) /\ vcalls[d].token = vcalls[c].token) => c \in vcalls[d].before)
    => /\ IsAccept(vcalls[c].result)
       /\ tickets[t].status = "CHECKED_IN"
       /\ tickets[t].checkInTime # NULL
       /\ tickets[t].nonce # vcalls[c].token.nonce

\* C6 witness: the first validate of a registered ticket's credential has
\* been answered with nothing else presenting that credential meanwhile
C6_Witness ==
  \E c \in ValidateCalls : \E t \in TicketIds :
    /\ Done(c) /\ vcalls[c].token = tickets[t].jwtToken
    /\ tickets[t].jwtToken # NoToken
    /\ vcalls[c].eventId = tickets[t].eventId
    /\ tickets[t].status \in {"REGISTERED", "CHECKED_IN"}
    /\ vcalls[c].writes = 1
    /\ \A d \in ValidateCalls \ {c} :
         (Started(d) /\ vcalls[d].token = vcalls[c].token) => c \in vcalls[d].before

\* C7: a credential whose signature does not verify is hard-rejected as
\* forged for every eventId, and the call reads and writes no ledger row.
C7_ForgedRejectedWithoutLedger ==
  \A c \in ValidateCalls :
    (/\ Done(c) /\ vcalls[c].token # NoToken /\ vcalls[c].eventId # NULL
     /\ ~Authentic(vcalls[c].token))
    => /\ IsHardReject(vcalls[c].result)
       /\ vcalls[c].result = SignatureFailed
       /\ vcalls[c].reads = 0
       /\ vcalls[c].writes = 0

\* C7 witness: a copy of a REGISTERED ticket's token with a live nonce and
\* a signature that does not verify was presented at the token's own event
C7_Witness ==
  \E c \in ValidateCalls : \E t \in TicketIds :
    /\ Done(c) /\ vcalls[c].token # NoToken
    /\ ~Authentic(vcalls[c].token)
    /\ vcalls[c].eventId = vcalls[c].token.evt
    /\ tickets[t].status = "REGISTERED"
    /\ tickets[t].nonce = vcalls[c].token.nonce

\* C8: a validly signed credential presented against an eventId other than
\* its evt claim is answered red 'event mismatch' at once, and the step
\* changes no ticket row.
C8_WrongEventRejected ==
  [][\A c \in ValidateCalls :
       (/\ vcalls[c].pc = "idle" /\ vcalls'[c].pc # "idle"
        /\ Authentic(vcalls'[c].token)
        /\ vcalls'[c].eventId \notin {NULL, vcalls'[c].token.evt})
       => /\ vcalls'[c].pc = "done"
          /\ IsHardReject(vcalls'[c].result)
          /\ vcalls'[c].result = EventMismatch
          /\ tickets' = tickets]_vars

\* C8 witness: a credential with a live nonce was refused at the wrong
\* event and accepted afterwards at its own event
C8_Witness ==
  \E c, d \in ValidateCalls :
    /\ Done(c) /\ d \in vcalls[c].before
    /\ vcalls[d].token = vcalls[c].token
    /\ vcalls[d].eventId # vcalls[d].token.evt
    /\ vcalls[d].result = EventMismatch
    /\ vcalls[c].eventId = vcalls[c].token.evt
    /\ IsAccept(vcalls[c].result)

\* C9: the only validate of the credential of a ticket created REGISTERED,
\* at the event of the credential, is answered Accept, whatever the clock
\* reads and whatever happened to other tickets.
C9_AcceptedWhileRegistered ==
  \A c \in ValidateCalls :
    (/\ Done(c) /\ vcalls[c].token \in Genuine
     /\ vcalls[c].eventId = vcalls[c].token.evt
     /\ RegisteredCredential(vcalls[c].token)
     /\ Presentations(vcalls[c].token) = {c})
    => IsAccept(vcalls[c].result)

\* C9 witness: a credential was accepted at a later clock reading than its
\* issuance, after a validate of another ticket's credential was answered
C9_Witness ==
  \E c, d \in ValidateCalls : \E t \in TicketIds :
    /\ Done(c) /\ IsAccept(vcalls[c].result)
    /\ Presentations(vcalls[c].token) = {c}
    /\ tickets[t].jwtToken = vcalls[c].token
    /\ tickets[t].checkInTime > vcalls[c].token.iat
    /\ d \in vcalls[c].before
    /\ vcalls[d].token \in Genuine \ {vcalls[c].token}
    /\ vcalls[d].reads = 1

\* C10: the lookup that resolves a WAITLISTED or CANCELLED ticket answers
\* red with the status in message and reason, and no step of any validate
\* changes a WAITLISTED or CANCELLED ticket.
C10_InvalidStatusRejected ==
  [][/\ \A t \in TicketIds :
          tickets[t].status \in {"WAITLISTED", "CANCELLED"} => tickets'[t] = tickets[t]
     /\ \A c \in ValidateCalls : \A t \in TicketIds :
          (/\ vcalls[c].pc = "find" /\ vcalls'[c] # vcalls[c]
           /\ tickets[t].nonce = vcalls[c].payload.nonce
           /\ tickets[t].status \in {"WAITLISTED", "CANCELLED"})
          => /\ vcalls'[c].pc = "done"
             /\ vcalls'[c].result =
                  Response(200, FALSE, "red", <<"Ticket status: ", tickets[t].status>>,
                           <<"Invalid status: ", tickets[t].status>>, NoTicket)
             /\ tickets' = tickets]_vars

\* C10 witness: the credential of a WAITLISTED ticket and the credential of
\* a CANCELLED ticket were each presented at their event and refused
C10_Witness ==
  \E c, d \in ValidateCalls : \E t, u \in TicketIds :
    /\ Done(c) /\ Done(d)
    /\ tickets[t].status = "WAITLISTED" /\ vcalls[c].token = tickets[t].jwtToken
    /\ vcalls[c].result = InvalidStatus(tickets[t])
    /\ tickets[u].status = "CANCELLED" /\ vcalls[d].token = tickets[u].jwtToken
    /\ vcalls[d].result = InvalidStatus(tickets[u])

\* C11: validate reports the earliest failing check of the order signature,
\* audience, nonce, status: a bad signature is reported as forged whatever
\* the eventId, a wrong audience as event mismatch whatever the nonce and
\* with no ledger lookup, and only the accepted call writes.
C11_EarliestCheckReported ==
  \A c \in ValidateCalls :
    (Done(c) /\ vcalls[c].token # NoToken /\ vcalls[c].eventId # NULL)
    => /\ ~Authentic(vcalls[c].token)
            => vcalls[c].result = SignatureFailed /\ vcalls[c].reads = 0
       /\ (Authentic(vcalls[c].token) /\ vcalls[c].token.evt # vcalls[c].eventId)
            => vcalls[c].result = EventMismatch /\ vcalls[c].reads = 0
       /\ vcalls[c].reads > 0
            => Authentic(vcalls[c].token) /\ vcalls[c].token.evt = vcalls[c].eventId
       /\ vcalls[c].writes > 0
            => vcalls[c].reads = 1 /\ IsAccept(vcalls[c].result)
       /\ ~IsAccept(vcalls[c].result) => vcalls[c].writes = 0

\* C11 witness: an authentic credential whose nonce no ticket holds was
\* presented at the wrong event and reported as event mismatch, unread
C11_Witness ==
  \E c \in ValidateCalls :
    /\ Done(c) /\ Authentic(vcalls[c].token)
    /\ vcalls[c].eventId \notin {NULL, vcalls[c].token.evt}
    /\ Stale(vcalls[c].token.nonce)
    /\ vcalls[c].result = EventMismatch
    /\ vcalls[c].reads = 0

\* C12: no two tickets share the same non-null nonce.
C12_NonceUnique ==
  \A t, u \in TicketIds :
    (t # u /\ tickets[t].nonce # NULL) => tickets[t].nonce # tickets[u].nonce

\* C12 witness: three tickets hold nonces, one of them rotated by a
\* check-in
C12_Witness ==
  \E t, u, w \in TicketIds :
    /\ t # u /\ t # w /\ u # w
    /\ tickets[t].nonce # NULL /\ tickets[u].nonce # NULL /\ tickets[w].nonce # NULL
    /\ tickets[t].status = "CHECKED_IN"
    /\ tickets[t].nonce # tickets[t].jwtToken.nonce

\* C13: at most one ticket exists per (userId, eventId) pair.
C13_OneTicketPerUserEvent ==
  \A t, u \in TicketIds :
    (tickets[t].userId = tickets[u].userId /\ tickets[t].eventId = tickets[u].eventId)
    => t = u

\* C13 witness: two register requests of one user for one event were in
\* flight together, both past the duplicate lookup, and both were answered
C13_Witness ==
  \E r, q \in RegisterCalls :
    /\ r # q
    /\ rcalls[r].pc = "done" /\ rcalls[q].pc = "done"
    /\ rcalls[r].userId = rcalls[q].userId /\ rcalls[r].eventId = rcalls[q].eventId
    /\ rcalls[r].result.http \in {200, 201}
    /\ rcalls[q].result.http = 500

\* C14: a ticket's checkInTime is null while the ticket is not CHECKED_IN
\* and, once set, is not changed by any step.
C14_CheckInTimeSetOnce ==
  [][\A t \in TicketIds :
       /\ tickets[t].status # "CHECKED_IN" => tickets[t].checkInTime = NULL
       /\ tickets[t].checkInTime # NULL
            => tickets'[t].checkInTime = tickets[t].checkInTime]_vars

\* C15: no step takes a CHECKED_IN ticket to another status, and no step
\* changes the status of a WAITLISTED or CANCELLED ticket.
C15_StatusMonotonic ==
  [][\A t \in TicketIds :
       /\ tickets[t].status = "CHECKED_IN" => tickets'[t].status = "CHECKED_IN"
       /\ tickets[t].status \in {"WAITLISTED", "CANCELLED"}
            => tickets'[t].status = tickets[t].status]_vars

\* C15 witness: two validate calls each wrote the same ticket, which is
\* CHECKED_IN, while a WAITLISTED ticket exists
C15_Witness ==
  \E c, d \in ValidateCalls : \E t, u \in TicketIds :
    /\ c # d /\ Done(c) /\ Done(d)
    /\ vcalls[c].writes = 1 /\ vcalls[d].writes = 1
    /\ vcalls[c].ticketId = t /\ vcalls[d].ticketId = t
    /\ tickets[t].status = "CHECKED_IN"
    /\ tickets[u].status = "WAITLISTED"

\* what a caller observes of a validate response
Observable(res) == <<res.http, res.valid, res.color, res.message, res.reason>>

\* C16: a validate call with a credential whose signature does not verify
\* is answered with the same observable response (HTTP status, valid,
\* color, message, reason) as a call whose authentic credential's nonce
\* resolves to no ticket.
C16_NoForgeryOracle ==
  \A c \in ValidateCalls :
    (/\ Done(c) /\ vcalls[c].token # NoToken /\ vcalls[c].eventId # NULL
     /\ ~Authentic(vcalls[c].token))
    => Observable(vcalls[c].result) = Observable(NonceNotFound)

\* C17: the response of an accepted validate call carries no value equal
\* to the current nonce of a ticket.
C17_AcceptHidesNewNonce ==
  \A c \in ValidateCalls :
    (Done(c) /\ IsAccept(vcalls[c].result))
    => \A t \in TicketIds :
         /\ vcalls[c].result.ticket.nonce # tickets[t].nonce
         /\ vcalls[c].result.ticket.jwtToken.nonce # tickets[t].nonce

\* the call passed steps 1 and 2 and a ledger operation of it threw: the
\* row was never read, or a REGISTERED row was read and never written
LedgerFailed(c) ==
  /\ Done(c) /\ Authentic(vcalls[c].token)
  /\ vcalls[c].eventId = vcalls[c].token.evt
  /\ \/ vcalls[c].reads = 0
     \/ vcalls[c].ticketId # NULL /\ vcalls[c].writes = 0

\* what a caller observes of the responses of the reject categories other
\* than duplicate
RejectObservables ==
  {Observable(SignatureFailed), Observable(EventMismatch), Observable(NonceNotFound)}
    \cup {Observable(InvalidStatus([NoTicket EXCEPT !.status = st])) : st \in TicketStatus}

\* C18: a validate call whose ledger read or write failed wrote nothing and
\* was answered with a response that is not Accept, not duplicate and not
\* the response of any reject category; the same request re-issued
\* afterwards, with no failure, is answered as the pipeline answers the
\* ticket's state: Accept for a ticket created REGISTERED, invalid status
\* otherwise.
C18_LedgerFailureIsDistinctAndRetryable ==
  \A c \in ValidateCalls :
    LedgerFailed(c)
    => /\ ~IsAccept(vcalls[c].result)
       /\ ~IsDuplicate(vcalls[c].result)
       /\ Observable(vcalls[c].result) \notin RejectObservables
       /\ vcalls[c].writes = 0
       /\ \A d \in ValidateCalls : \A t \in TicketIds :
            (/\ Done(d) /\ ~LedgerFailed(d) /\ c \in vcalls[d].before
             /\ vcalls[d].token = vcalls[c].token
             /\ vcalls[d].eventId = vcalls[c].eventId
             /\ tickets[t].jwtToken = vcalls[c].token
             /\ \A e \in ValidateCalls \ {c, d} :
                  Started(e) => vcalls[e].token # vcalls[c].token)
            => IF tickets[t].status \in {"REGISTERED", "CHECKED_IN"}
               THEN IsAccept(vcalls[d].result) /\ vcalls[d].writes = 1
               ELSE vcalls[d].result = InvalidStatus(tickets[t])

\* C18 witness: the update of a validate call failed, and the same request
\* re-issued afterwards was accepted
C18_Witness ==
  \E c, d \in ValidateCalls :
    /\ LedgerFailed(c) /\ vcalls[c].ticketId # NULL
    /\ Done(d) /\ c \in vcalls[d].before
    /\ vcalls[d].token = vcalls[c].token
    /\ vcalls[d].eventId = vcalls[c].eventId
    /\ IsAccept(vcalls[d].result)

\* C19: a validate request with a missing token or a missing eventId is
\* answered HTTP 400 'Invalid request', whatever the signature of the token
\* it does carry, and reads and writes no ledger row.
C19_MissingInputIs400 ==
  \A c \in ValidateCalls :
    (Started(c) /\ (vcalls[c].token = NoToken \/ vcalls[c].eventId = NULL))
    => /\ Done(c)
       /\ vcalls[c].result.http = 400
       /\ ~vcalls[c].result.valid
       /\ vcalls[c].result.reason = <<"Invalid request">>
       /\ vcalls[c].reads = 0
       /\ vcalls[c].writes = 0

\* C19 witness: a request that carries no eventId and a token whose
\* signature does not verify was answered
C19_Witness ==
  \E c \in ValidateCalls :
    /\ Done(c) /\ vcalls[c].eventId = NULL
    /\ vcalls[c].token # NoToken /\ ~Authentic(vcalls[c].token)

\* C20: every ticket a register request creates has status REGISTERED or
\* WAITLISTED and a non-null nonce no ticket held before, equal to the
\* nonce embedded in the signed token stored with it.
C20_CreatedWithFreshNonce ==
  [][Len(tickets') > Len(tickets)
       => LET ticket == tickets'[Len(tickets')]
          IN  /\ ticket.status \in {"REGISTERED", "WAITLISTED"}
              /\ ticket.nonce # NULL
              /\ Stale(ticket.nonce)
              /\ Authentic(ticket.jwtToken)
              /\ ticket.jwtToken.nonce = ticket.nonce]_vars

C22_IssueIsSideEffectFree ==
  [][\A r \in RegisterCalls :
       /\ (rcalls[r].pc = "count" /\ rcalls'[r].pc = "create")
            => /\ tickets' = tickets
               /\ rcalls'[r].nonce # NULL
                    => /\ findUniqueByNonce(rcalls'[r].nonce) = NoTicket
                       /\ rcalls'[r].token.nonce = rcalls'[r].nonce
                       /\ \A q \in RegisterCalls \ {r} :
                            rcalls'[q].nonce # rcalls'[r].nonce
       /\ (rcalls[r].pc = "create" /\ rcalls[r].nonce # NULL)
            => findUniqueByNonce(rcalls[r].nonce) = NoTicket]_vars

\* C22 witness: two register requests of one user for one free event each
\* hold an issued token, and neither is persisted yet
C22_Witness ==
  \E r, q \in RegisterCalls :
    /\ r # q
    /\ rcalls[r].pc = "create" /\ rcalls[q].pc = "create"
    /\ rcalls[r].userId = rcalls[q].userId /\ rcalls[r].eventId = rcalls[q].eventId
    /\ rcalls[r].nonce # NULL /\ rcalls[q].nonce # NULL

\* every ticket shows the whole check-in update or none of it: a
\* CHECKED_IN ticket has a checkInTime and a nonce other than the one
\* issued with it, any other ticket has no checkInTime and the nonce
\* issued with it
NoPartialCheckIn ==
  \A t \in TicketIds :
    IF tickets[t].status = "CHECKED_IN"
    THEN tickets[t].checkInTime # NULL /\ tickets[t].nonce # tickets[t].jwtToken.nonce
    ELSE tickets[t].checkInTime = NULL /\ tickets[t].nonce = tickets[t].jwtToken.nonce

\* C23: a step that changes a ticket row is the update of a validate call
\* answered Accept for that row; the step that answers a validate call with
\* anything else changes no row; and no ticket ever shows part of the
\* check-in update.
C23_NonAcceptChangesNothing ==
  [][/\ \A t \in TicketIds :
          tickets'[t] # tickets[t]
          => \E c \in ValidateCalls :
               /\ vcalls[c].pc = "update" /\ vcalls'[c].pc = "done"
               /\ vcalls[c].ticketId = t
               /\ IsAccept(vcalls'[c].result)
     /\ \A c \in ValidateCalls :
          (/\ vcalls[c].pc # "done" /\ vcalls'[c].pc = "done"
           /\ ~IsAccept(vcalls'[c].result))
          => tickets' = tickets
     /\ NoPartialCheckIn /\ NoPartialCheckIn']_vars

\* C23 witness: a request without eventId was answered, and the update of
\* another call threw, its ticket still REGISTERED with the issued nonce
C23_Witness ==
  \E c, d \in ValidateCalls :
    /\ Done(c) /\ vcalls[c].ticketId \in TicketIds /\ vcalls[c].writes = 0
    /\ vcalls[c].result = InternalError
    /\ tickets[vcalls[c].ticketId].status = "REGISTERED"
    /\ tickets[vcalls[c].ticketId].nonce = vcalls[c].token.nonce
    /\ Done(d) /\ vcalls[d].eventId = NULL /\ vcalls[d].result = BadRequest

\* C24: the step that answers a validate call Accept changes one ticket
\* row, the one its lookup resolved, and of that row only status,
\* checkInTime and nonce.
C24_AcceptChangesOneTicket ==
  [][\A c \in ValidateCalls :
       (vcalls[c].pc # "done" /\ vcalls'[c].pc = "done" /\ IsAccept(vcalls'[c].result))
       => LET id == vcalls[c].ticketId
          IN  /\ id \in TicketIds
              /\ Len(tickets') = Len(tickets)
              /\ \A t \in TicketIds \ {id} : tickets'[t] = tickets[t]
              /\ tickets'[id] = [tickets[id] EXCEPT !.status = tickets'[id].status,
                                                    !.checkInTime = tickets'[id].checkInTime,
                                                    !.nonce = tickets'[id].nonce]
              /\ tickets[id].jwtToken = vcalls[c].token]_vars

\* C24 witness: a call was answered Accept while the ledger held two other
\* tickets of the same event
C24_Witness ==
  \E c \in ValidateCalls : \E t, u \in TicketIds :
    /\ Done(c) /\ IsAccept(vcalls[c].result)
    /\ t # u /\ t # vcalls[c].ticketId /\ u # vcalls[c].ticketId
    /\ tickets[t].eventId = vcalls[c].eventId
    /\ tickets[u].eventId = vcalls[c].eventId
    /\ tickets[t].status # "CHECKED_IN" /\ tickets[u].status # "CHECKED_IN"

\* C25: every validate call that has arrived is eventually answered; an
\* answered call keeps its one response; and the pending ledger operation
\* of a call can always be answered, whatever the other calls are doing.
C25_ValidateTerminates ==
  /\ \A c \in ValidateCalls : [](Started(c) => <>Done(c))
  /\ [][\A c \in ValidateCalls : Done(c) => vcalls'[c] = vcalls[c]]_vars
  /\ [](\A c \in ValidateCalls :
          vcalls[c].pc \in {"find", "update"} => ENABLED ValidateStep(c))

\* C25 witness: two validate calls were in flight together and both have
\* been answered, one after its update and one from the catch block
C25_Witness ==
  \E c, d \in ValidateCalls :
    /\ Concurrent(c, d) /\ Done(c) /\ Done(d)
    /\ vcalls[c].writes = 1
    /\ LedgerFailed(d)

\* C26: the ticket a register request creates has the status the request
\* computed from its count: WAITLISTED when the count was at least the
\* capacity, REGISTERED otherwise, for free and paid events alike.
C26_StatusFromCount ==
  [][\A r \in RegisterCalls :
       (rcalls[r].pc = "create" /\ rcalls'[r].pc = "done" /\ Len(tickets') > Len(tickets))
       => tickets'[Len(tickets')].status = rcalls[r].status]_vars

\* C27: a register request that created no ticket for a (userId, eventId)
\* pair that has a ticket was answered 409 'Already registered', also when
\* the other request for the pair ran concurrently.
C27_DuplicateIsConflict ==
  \A r \in RegisterCalls :
    (/\ rcalls[r].pc = "done"
     /\ rcalls[r].result.http \notin {200, 201}
     /\ rcalls[r].eventId \in EventIds
     /\ UserEventTaken(rcalls[r].userId, rcalls[r].eventId))
    => /\ rcalls[r].result.http = 409
       /\ rcalls[r].result.error = "Already registered"

\* C28: the number of an event's tickets in status REGISTERED or
\* CHECKED_IN does not exceed the event's capacity.
C28_CapacityRespected ==
  \A e \in EventIds :
    countTickets(e, {"REGISTERED", "CHECKED_IN"}) <= events[e].capacity

\* C29: the ticket an accepted validate call checked in has the eventId of
\* the request and the userId of the credential's sub claim.
C29_AcceptedTicketMatchesClaims ==
  \A c \in ValidateCalls :
    (Done(c) /\ IsAccept(vcalls[c].result))
    => /\ vcalls[c].ticketId \in TicketIds
       /\ tickets[vcalls[c].ticketId].eventId = vcalls[c].eventId
       /\ tickets[vcalls[c].ticketId].userId = vcalls[c].token.sub
       /\ tickets[vcalls[c].ticketId].status = "CHECKED_IN"
       /\ vcalls[c].result.ticket.userId = vcalls[c].token.sub
       /\ vcalls[c].result.ticket.eventId = vcalls[c].eventId

\* C29 witness: a call was accepted while another user holds a ticket with
\* a token for the same event
C29_Witness ==
  \E c \in ValidateCalls : \E u \in TicketIds :
    /\ Done(c) /\ IsAccept(vcalls[c].result)
    /\ tickets[u].eventId = vcalls[c].eventId
    /\ tickets[u].userId \in Users \ {vcalls[c].token.sub}
    /\ tickets[u].jwtToken # NoToken

\* the tokens registration has issued: stored with a ticket, or held by a
\* register request that has not created its ticket yet
Issued ==
  Genuine \cup {rcalls[r].token : r \in {q \in RegisterCalls : rcalls[q].token # NoToken}}

====
